---------------------------- MODULE Spec2Model ----------------------------
(***************************************************************************)
(* PtrCounter and SmartPointer<Type> of source/smart_pointer/               *)
(* smart_pointer.hpp as a state machine.                                    *)
(*                                                                          *)
(* A handle is a slot h with the two fields of SmartPointer: resource_[h]   *)
(* and m_counter[h].  PtrCounter objects live on a heap of MaxAddr          *)
(* addresses: `allocated` is the set of addresses that hold a live          *)
(* PtrCounter and value[a] is the content of the unsigned int at address a. *)
(* A pointer is an address and nothing more, so a handle whose counter has  *)
(* been deleted keeps the address, reads whatever the freed memory holds    *)
(* (the allocator overwrites it with a value g chosen from Garbage), and    *)
(* shares the address with any PtrCounter that `new` later places there.    *)
(* Memory that is neither allocated nor pointed to by a handle cannot be    *)
(* read before `new` overwrites it; the model keeps it at 0, and `new`      *)
(* takes the lowest such address (they are interchangeable) or any freed    *)
(* address that a handle still points to.                                   *)
(*                                                                          *)
(* PtrCounter::m_counter is an unsigned int.  TLC's integers are 32 bits    *)
(* wide and signed, so value[a] is the 32-bit pattern of the counter read   *)
(* as two's complement: n >= 0 is the count n and -k is the count 2^32 - k. *)
(* On that reading ++ and -- are +1 and -1 with the wrap at the ends of the *)
(* 32-bit range, 0 - 1 is -1 (that is 2^32 - 1), and get() == 0 is          *)
(* value[a] = 0.                                                            *)
(***************************************************************************)
EXTENDS Integers, FiniteSets, TLC

MaxHandles == 3
MaxAddr == 2
MaxRes == 2
MaxWrap == 1
MaxGarbage == 1
MaxThreads == 2

NULL == 0
IntMax == 2147483647

Handles == 1..MaxHandles
Addrs == 1..MaxAddr
Resources == 1..MaxRes
Garbage == 0..MaxGarbage
Threads == 1..MaxThreads
\* the counter values the model follows: down to MaxWrap below zero (the
\* wrapped values 2^32 - 1 .. 2^32 - MaxWrap), up to what MaxHandles handles
\* can add to a freed cell's garbage
CountRange == (-MaxWrap)..(MaxHandles + MaxGarbage)

VARIABLES
    live,       \* live[h]: slot h holds a SmartPointer object
    resource_,  \* SmartPointer::resource_ of each handle (NULL or a resource)
    m_counter,  \* SmartPointer::m_counter of each handle: an address
    allocated,  \* the addresses that hold a PtrCounter not yet deleted
    value,      \* PtrCounter::m_counter: the unsigned int at each address
    freed,      \* how many times each resource was deleted (2: more than once)
    nextRes,    \* the next resource of Resources no handle was given yet
    last,       \* the operation that led to this state
    thr,        \* thr[t]: where thread t is inside a handle operation
    overlapped  \* two threads have been inside operations on one counter

vars == <<live, resource_, m_counter, allocated, value, freed, nextRes, last,
          thr, overlapped>>
prog == <<live, resource_, m_counter, allocated, value, freed>>
tvars == <<thr, overlapped>>

----------------------------------------------------------------------------
(* PtrCounter *)

Inc(v) == IF v = IntMax THEN -IntMax - 1 ELSE v + 1

Dec(v) == IF v = -IntMax - 1 THEN IntMax ELSE v - 1

PtrCounterInit == 0

GetReferenceCount(h) == value[m_counter[h]]

GetPointer(h) == resource_[h]

----------------------------------------------------------------------------
(* helpers of the handle operations *)

\* delete resource_: a null pointer is left alone; freed[r] counts the
\* deletes of r and stops counting at 2 (freed more than once).
DeleteResource(r) ==
    IF r = NULL THEN freed
    ELSE [freed EXCEPT ![r] = IF @ < 2 THEN @ + 1 ELSE @]

\* (*m_counter)--; if (m_counter->get() == 0): does this handle release?
ReachesZero(h) == Dec(value[m_counter[h]]) = 0

\* does a live handle other than h point to address a?
PointedToByOther(h, a) == \E x \in Handles \ {h} : live[x] /\ m_counter[x] = a

\* the counter heap after "(*m_counter)--; if (get() == 0) delete m_counter":
\* a deleted cell holds the garbage g while another handle still points to
\* it; a cell that is not allocated and that no other handle points to is
\* out of the program's reach.
ValueAfterRelease(h, g) ==
    LET a == m_counter[h]
        gone == ReachesZero(h) \/ a \notin allocated
    IN  [value EXCEPT ![a] =
            IF gone /\ ~PointedToByOther(h, a) THEN 0
            ELSE IF ReachesZero(h) THEN g
            ELSE Dec(@)]

\* what a cell deleted by h's release can hold afterwards: a choice that
\* matters only when another handle can still read the cell
GarbageAt(h) ==
    IF live[h] /\ ReachesZero(h) /\ PointedToByOther(h, m_counter[h])
    THEN Garbage ELSE {0}

\* delete m_counter takes the address out of the heap, whichever counter
\* sits there now; on an address that holds no counter (a second delete)
\* the heap stays as it is: a run the allocator aborts there is a prefix of
\* one where it does not notice.
AllocatedAfterRelease(h) ==
    IF ReachesZero(h) THEN allocated \ {m_counter[h]} ELSE allocated

FreedAfterRelease(h) ==
    IF ReachesZero(h) THEN DeleteResource(resource_[h]) ELSE freed

\* if (resource) (*m_counter)++ on a counter that holds v
IncIfResource(r, v) == IF r # NULL THEN Inc(v) ELSE v

\* a copy constructor that attaches without counting itself
CopyWithoutIncrement(r, v) == v

\* (*m_counter)++ of the copy constructor, whatever the resource r is
IncOnCopy(r, v) == Inc(v)

\* a copy assignment with no guard against self and alias assignment
IsAliasGuardMissing(h, o) == FALSE

\* resource_ == other.resource_ and m_counter == other.m_counter
IsAlias(h, o) == resource_[h] = resource_[o] /\ m_counter[h] = m_counter[o]

\* the raw pointers a caller can pass: null, or the next resource that no
\* handle was given yet
RawInputs == {NULL} \cup (IF nextRes <= MaxRes THEN {nextRes} ELSE {})

\* a new handle object takes the lowest slot that holds no handle
FreeSlot(h) == ~live[h] /\ \A x \in Handles : x < h => live[x]

\* the addresses `new PtrCounter()` can return when `free` is the set of
\* unallocated addresses and `ctr`, `lv` are the handles' pointers
NewAddrs(free, ctr, lv) ==
    LET stale == {a \in free : \E x \in Handles : lv[x] /\ ctr[x] = a}
        clean == free \ stale
    IN  stale \cup {a \in clean : \A b \in clean : a <= b}

\* what `last` keeps of an operation: its name, and whether it was a copy
\* assignment that took the early return of the alias guard
Record(op, alias) == [op |-> op, alias |-> alias]

\* a thread that is not inside a handle operation
Idle == [pc |-> "idle", h |-> NULL, tmp |-> 0]

----------------------------------------------------------------------------
Init ==
    /\ live = [h \in Handles |-> FALSE]
    /\ resource_ = [h \in Handles |-> NULL]
    /\ m_counter = [h \in Handles |-> NULL]
    /\ allocated = {}
    /\ value = [a \in Addrs |-> 0]
    /\ freed = [r \in Resources |-> 0]
    /\ nextRes = 1
    /\ last = Record("Init", FALSE)
    /\ thr = [t \in Threads |-> Idle]
    /\ overlapped = FALSE

\* explicit SmartPointer(Type *resource = nullptr)
Construct(h, r, a) ==
    /\ FreeSlot(h)
    /\ UNCHANGED tvars
    /\ a \in NewAddrs(Addrs \ allocated, m_counter, live)
    /\ live' = [live EXCEPT ![h] = TRUE]
    /\ resource_' = [resource_ EXCEPT ![h] = r]
    /\ m_counter' = [m_counter EXCEPT ![h] = a]
    /\ allocated' = allocated \cup {a}
    /\ value' = [value EXCEPT ![a] = IncIfResource(r, PtrCounterInit)]
    /\ nextRes' = IF r = NULL THEN nextRes ELSE nextRes + 1
    /\ last' = Record("Construct", FALSE)
    /\ UNCHANGED freed

\* ~SmartPointer()
Destruct(h, g) ==
    /\ live[h]
    /\ UNCHANGED tvars
    /\ Dec(value[m_counter[h]]) \in CountRange
    /\ value' = ValueAfterRelease(h, g)
    /\ allocated' = AllocatedAfterRelease(h)
    /\ freed' = FreedAfterRelease(h)
    /\ live' = [live EXCEPT ![h] = FALSE]
    /\ resource_' = [resource_ EXCEPT ![h] = NULL]
    /\ m_counter' = [m_counter EXCEPT ![h] = NULL]
    /\ last' = Record("Destruct", FALSE)
    /\ UNCHANGED nextRes

\* SmartPointer(const SmartPointer &other)
CopyConstruct(h, o) ==
    /\ FreeSlot(h)
    /\ UNCHANGED tvars
    /\ live[o]
    /\ Inc(value[m_counter[o]]) \in CountRange
    /\ live' = [live EXCEPT ![h] = TRUE]
    /\ resource_' = [resource_ EXCEPT ![h] = resource_[o]]
    /\ m_counter' = [m_counter EXCEPT ![h] = m_counter[o]]
    /\ value' = [value EXCEPT ![m_counter[o]] = IncOnCopy(resource_[o], @)]
    /\ last' = Record("CopyConstruct", FALSE)
    /\ UNCHANGED <<allocated, freed, nextRes>>

\* SmartPointer &operator=(const SmartPointer &other)
CopyAssign(h, o, g) ==
    /\ live[h] /\ live[o]
    /\ UNCHANGED tvars
    /\ IF IsAlias(h, o)
       THEN /\ last' = Record("CopyAssign", TRUE)
            /\ UNCHANGED <<live, resource_, m_counter, allocated, value,
                           freed, nextRes>>
       ELSE LET released == ValueAfterRelease(h, g)
                c == m_counter[o]
            IN  /\ Dec(value[m_counter[h]]) \in CountRange
                /\ IncIfResource(resource_[o], released[c]) \in CountRange
                /\ allocated' = AllocatedAfterRelease(h)
                /\ freed' = FreedAfterRelease(h)
                /\ resource_' = [resource_ EXCEPT ![h] = resource_[o]]
                /\ m_counter' = [m_counter EXCEPT ![h] = c]
                /\ value' = [released EXCEPT
                                ![c] = IncIfResource(resource_[o], @)]
                /\ last' = Record("CopyAssign", FALSE)
                /\ UNCHANGED <<live, nextRes>>

\* SmartPointer &operator=(Type *other)
AssignRaw(h, r, g, a) ==
    /\ live[h]
    /\ UNCHANGED tvars
    /\ Dec(value[m_counter[h]]) \in CountRange
    /\ a \in NewAddrs(Addrs \ AllocatedAfterRelease(h),
                      [m_counter EXCEPT ![h] = NULL], live)
    /\ allocated' = AllocatedAfterRelease(h) \cup {a}
    /\ freed' = FreedAfterRelease(h)
    /\ resource_' = [resource_ EXCEPT ![h] = r]
    /\ m_counter' = [m_counter EXCEPT ![h] = a]
    /\ value' = [ValueAfterRelease(h, g) EXCEPT
                    ![a] = IncIfResource(r, PtrCounterInit)]
    /\ nextRes' = IF r = NULL THEN nextRes ELSE nextRes + 1
    /\ last' = Record("AssignRaw", FALSE)
    /\ UNCHANGED live

\* a Detach() that does what its comment announces: stops managing the
\* resource, releasing it if this was the last handle
DetachAsDocumented(h) ==
    /\ live[h]
    /\ UNCHANGED tvars
    /\ Dec(value[m_counter[h]]) \in CountRange
    /\ value' = ValueAfterRelease(h, 0)
    /\ allocated' = AllocatedAfterRelease(h)
    /\ freed' = FreedAfterRelease(h)
    /\ resource_' = [resource_ EXCEPT ![h] = NULL]
    /\ last' = Record("Detach", FALSE)
    /\ UNCHANGED <<live, m_counter, nextRes>>

\* void Detach()
Detach(h) ==
    /\ live[h]
    /\ UNCHANGED tvars
    /\ last' = Record("Detach", FALSE)
    /\ UNCHANGED <<live, resource_, m_counter, allocated, value, freed,
                   nextRes>>

\* Type *GetPointer() const
CallGetPointer(h) ==
    /\ live[h]
    /\ UNCHANGED tvars
    /\ last' = Record("GetPointer", FALSE)
    /\ UNCHANGED <<live, resource_, m_counter, allocated, value, freed,
                   nextRes>>

\* size_t GetReferenceCount() const
CallGetReferenceCount(h) ==
    /\ live[h]
    /\ UNCHANGED tvars
    /\ last' = Record("GetReferenceCount", FALSE)
    /\ UNCHANGED <<live, resource_, m_counter, allocated, value, freed,
                   nextRes>>

Next ==
    \/ \E h \in Handles, r \in RawInputs, a \in Addrs : Construct(h, r, a)
    \/ \E h \in Handles : \E g \in GarbageAt(h) : Destruct(h, g)
    \/ \E h, o \in Handles : CopyConstruct(h, o)
    \/ \E h, o \in Handles : \E g \in GarbageAt(h) : CopyAssign(h, o, g)
    \/ \E h \in Handles, r \in RawInputs, a \in Addrs :
          \E g \in GarbageAt(h) : AssignRaw(h, r, g, a)
    \/ \E h \in Handles : Detach(h)
    \/ \E h \in Handles : CallGetPointer(h)
    \/ \E h \in Handles : CallGetReferenceCount(h)

Spec == Init /\ [][Next]_vars

\* The shared-owner scenario: handles built on resources, copies of them,
\* their destruction in any order, and the two accessors.
NextShared ==
    \/ \E h \in Handles, a \in Addrs :
          nextRes <= MaxRes /\ Construct(h, nextRes, a)
    \/ \E h, o \in Handles : CopyConstruct(h, o)
    \/ \E h \in Handles : \E g \in GarbageAt(h) : Destruct(h, g)
    \/ \E h \in Handles : CallGetPointer(h)
    \/ \E h \in Handles : CallGetReferenceCount(h)

SpecShared == Init /\ [][NextShared]_vars

----------------------------------------------------------------------------
(* The claims *)

LiveHandles == {h \in Handles : live[h]}

\* the live handles that hold resource r
Holders(r) == {h \in LiveHandles : resource_[h] = r}

\* the other live handles that hold the resource h holds
Sharers(h) == Holders(resource_[h]) \ {h}

\* C1: with every raw resource handed to a handle at most once, no resource
\* is freed more than once, and no resource is freed while a live handle
\* still holds a pointer to it (so only the operation that takes the last
\* handle away from a resource frees it).
C1_ResourceSafety ==
    /\ \A r \in Resources : freed[r] <= 1
    /\ \A h \in LiveHandles :
          resource_[h] # NULL => freed[resource_[h]] = 0

\* C2: the count in every allocated counter is the number of live handles
\* with a non-null resource that point at it, and every live handle with a
\* null resource reports a count of 0.
C2_CountMatchesHandles ==
    /\ \A a \in allocated :
          value[a] = Cardinality({h \in LiveHandles :
                                    m_counter[h] = a /\ resource_[h] # NULL})
    /\ \A h \in LiveHandles :
          resource_[h] = NULL => GetReferenceCount(h) = 0

\* C3: among an original that owns a resource and the handles copy-constructed
\* from it, destroyed in any order, the resource is freed only once no handle
\* is left (never twice, never under a surviving handle), and at every step
\* each surviving handle's GetReferenceCount() is the number of live handles
\* that alias the resource.
C3_SharedLifecycle ==
    /\ \A r \in Resources : freed[r] <= 1
    /\ \A h \in LiveHandles :
          /\ resource_[h] # NULL
          /\ freed[resource_[h]] = 0
          /\ GetReferenceCount(h) = Cardinality(Holders(resource_[h]))

\* one resource was handed out, three handles aliased it, one of them was
\* destroyed and the two survivors report 2
C3_Witness ==
    /\ last.op = "Destruct"
    /\ nextRes = 2
    /\ Cardinality(Holders(1)) = 2
    /\ \A h \in Holders(1) : GetReferenceCount(h) = 2
    /\ freed[1] = 0

\* C4: once every handle is destroyed, every resource that was given to a
\* handle has been freed.
C4_NoLeak ==
    (LiveHandles = {} /\ last.op = "Destruct") =>
        \A r \in Resources : r < nextRes => freed[r] >= 1

\* C5: Assign-from-raw on the sole owner of a non-null resource frees that
\* resource and its counter within the assignment.
C5_RawAssignFreesOld ==
    [][\A h \in Handles, r \in RawInputs, g \in Garbage, a \in Addrs :
          (AssignRaw(h, r, g, a) /\ resource_[h] # NULL /\ Sharers(h) = {})
          => /\ freed'[resource_[h]] = freed[resource_[h]] + 1
             /\ m_counter[h] \in allocated
             /\ (m_counter[h] \notin allocated' \/ m_counter'[h] = m_counter[h])
      ]_vars

\* C6: copy-assigning a handle to itself, or to a handle that holds the same
\* (resource, counter) pair, changes no handle, no counter and no resource.
C6_AliasAssignNoOp ==
    [][\A h, o \in Handles :
          (/\ last'.op = "CopyAssign"
           /\ live[h] /\ live[o]
           /\ resource_[h] = resource_[o]
           /\ m_counter[h] = m_counter[o]
           /\ \E g \in Garbage : CopyAssign(h, o, g))
          => UNCHANGED prog
      ]_vars

\* a copy assignment between two handles that share a resource took the
\* early return
C6_Witness ==
    /\ last.op = "CopyAssign" /\ last.alias
    /\ \E h, o \in LiveHandles :
          /\ h # o
          /\ resource_[h] # NULL
          /\ resource_[h] = resource_[o]
          /\ m_counter[h] = m_counter[o]
          /\ GetReferenceCount(h) = 2

\* C7: Assign-from-raw on a handle that shares a non-null resource with
\* k >= 1 other live handles does not free the resource and leaves those k
\* handles reporting k; the assigning handle gets a fresh counter that no
\* other handle points to, at 1 for a non-null and 0 for a null resource.
C7_RawAssignDetachesShared ==
    [][\A h \in Handles, r \in RawInputs, g \in Garbage, a \in Addrs :
          (AssignRaw(h, r, g, a) /\ resource_[h] # NULL /\ Sharers(h) # {})
          => /\ freed'[resource_[h]] = freed[resource_[h]]
             /\ \A x \in Sharers(h) :
                   value'[m_counter'[x]] = Cardinality(Sharers(h))
             /\ \A x \in LiveHandles \ {h} : m_counter'[x] # m_counter'[h]
             /\ value'[m_counter'[h]] = IF r # NULL THEN 1 ELSE 0
      ]_vars

\* C8: a Copy-assign from a handle that owns a non-null resource, to a
\* handle that is not already its alias, makes the two share resource and
\* counter and raises that counter by exactly one; and the second
\* assignment of h3 = h2 = h1 (h2 holds h1's pair when it runs) ends with
\* the three handles on one pair whose count is the number of live handles
\* that alias h1 (3 plus the other aliases).
C8_ChainedAssign ==
    [][\A h, o \in Handles, g \in Garbage :
          (CopyAssign(h, o, g) /\ resource_[o] # NULL)
          => /\ ~(resource_[h] = resource_[o] /\ m_counter[h] = m_counter[o])
                => /\ resource_'[h] = resource_[o]
                   /\ m_counter'[h] = m_counter[o]
                   /\ value'[m_counter[o]] = value[m_counter[o]] + 1
             /\ \A h1 \in LiveHandles :
                   (resource_[h1] = resource_[o] /\ m_counter[h1] = m_counter[o])
                   => /\ resource_'[h] = resource_'[h1]
                      /\ resource_'[o] = resource_'[h1]
                      /\ m_counter'[h] = m_counter'[h1]
                      /\ m_counter'[o] = m_counter'[h1]
                      /\ value'[m_counter'[h1]] =
                            Cardinality({x \in Handles :
                                live'[x] /\ resource_'[x] = resource_'[h1]})
      ]_vars

\* C9: a handle constructed with no resource reports a count of 0 and a
\* null resource, and its counter is one that no other handle points to.
C9_NullConstruct ==
    [][\A h \in Handles, a \in Addrs :
          Construct(h, NULL, a)
          => /\ GetReferenceCount(h)' = 0
             /\ GetPointer(h)' = NULL
             /\ \A x \in LiveHandles : m_counter'[x] # m_counter'[h]
      ]_vars

\* C10: after Detach() the handle holds no resource, the resource's count
\* is one lower, and the resource is freed if no other handle held it.
C10_DetachReleases ==
    [][\A h \in Handles :
          (Detach(h) /\ resource_[h] # NULL)
          => /\ resource_'[h] = NULL
             /\ value'[m_counter[h]] = Dec(value[m_counter[h]])
             /\ Sharers(h) = {} => freed'[resource_[h]] = freed[resource_[h]] + 1
      ]_vars

\* the steps in which handle h runs "(*m_counter)--; if (get() == 0) ...":
\* its destructor, a copy assignment past the alias guard, a raw assignment
ReleaseStep(h) ==
    \/ \E g \in Garbage : Destruct(h, g)
    \/ \E o \in Handles, g \in Garbage :
          ~(resource_[h] = resource_[o] /\ m_counter[h] = m_counter[o])
          /\ CopyAssign(h, o, g)
    \/ \E r \in RawInputs, g \in Garbage, a \in Addrs : AssignRaw(h, r, g, a)

\* C11: every live handle is either Unattached (null resource, a counter no
\* other handle points to, count 0) or Owning-Shared (non-null resource,
\* count >= 1); so no two null handles share a counter and no null handle
\* reports a non-zero count.
C11_TwoHandleStates ==
    \A h \in LiveHandles :
        \/ /\ resource_[h] = NULL
           /\ ~PointedToByOther(h, m_counter[h])
           /\ GetReferenceCount(h) = 0
        \/ /\ resource_[h] # NULL
           /\ GetReferenceCount(h) # 0

\* C12: no live handle holds a pointer to a counter that has been released:
\* the address every live handle points to holds a counter that was not
\* deleted.
C12_NoDanglingCounter ==
    \A h \in LiveHandles : m_counter[h] \in allocated

\* C13: the decrement of a counter is only applied when the count is above
\* zero, so no count wraps around to 2^32 - 1.
C13_NoWrap ==
    [][\A h \in LiveHandles :
          (last'.op \in {"Destruct", "CopyAssign", "AssignRaw"} /\ ReleaseStep(h))
          => /\ value[m_counter[h]] # 0
             /\ Dec(value[m_counter[h]]) >= 0
      ]_vars

\* C14: every counter is released exactly once: a release deletes a counter
\* that is still allocated, and once no handle is left no counter is left
\* allocated.
C14_CountersReleased ==
    [][/\ \A h \in LiveHandles :
             (last'.op \in {"Destruct", "CopyAssign", "AssignRaw"}
              /\ ReleaseStep(h) /\ ReachesZero(h))
             => m_counter[h] \in allocated
       /\ (\A h \in Handles : ~live'[h]) => allocated' = {}
      ]_vars
\* C15: a copy assignment past the alias guard, by a handle h that holds a
\* non-null resource: if h was its sole owner, the resource and its counter
\* are freed within the assignment; if k >= 1 other handles share it, it is
\* not freed and its count becomes k; either way h then holds other's
\* resource pointer and counter.
C15_CopyAssignDetaches ==
    [][\A h, o \in Handles :
          (/\ last'.op = "CopyAssign"
           /\ live[h] /\ live[o]
           /\ resource_[h] # NULL
           /\ ~(resource_[h] = resource_[o] /\ m_counter[h] = m_counter[o])
           /\ \E g \in Garbage : CopyAssign(h, o, g))
          => /\ resource_'[h] = resource_[o]
             /\ m_counter'[h] = m_counter[o]
             /\ IF Sharers(h) = {}
                THEN /\ freed'[resource_[h]] = freed[resource_[h]] + 1
                     /\ m_counter[h] \in allocated
                     /\ m_counter[h] \notin allocated'
                ELSE /\ freed'[resource_[h]] = freed[resource_[h]]
                     /\ m_counter[h] \in allocated'
                     /\ value'[m_counter[h]] = Cardinality(Sharers(h))
      ]_vars
\* handle h is as `SmartPointer<Type> h;` leaves it: a null resource and a
\* PtrCounter of its own that holds 0
FreshDefault(h) ==
    /\ live[h]
    /\ resource_[h] = NULL
    /\ m_counter[h] \in allocated
    /\ ~PointedToByOther(h, m_counter[h])
    /\ value[m_counter[h]] = PtrCounterInit

\* C16: copy-assigning a source o to a freshly default-constructed handle h
\* leaves what copy-constructing h from o would leave: h holds o's resource
\* pointer and o's counter, and the count both report is the one the copy
\* constructor produces.
C16_CopyAssignAsCopyConstruct ==
    [][\A h, o \in Handles :
          (/\ last'.op = "CopyAssign"
           /\ h # o
           /\ live[o]
           /\ FreshDefault(h)
           /\ \E g \in Garbage : CopyAssign(h, o, g))
          => /\ resource_'[h] = resource_[o]
             /\ resource_'[o] = resource_[o]
             /\ m_counter'[h] = m_counter[o]
             /\ m_counter'[o] = m_counter[o]
             /\ value'[m_counter[o]] =
                    IncOnCopy(resource_[o], value[m_counter[o]])
      ]_vars
----------------------------------------------------------------------------
(* Two threads on handles that share a counter.  PtrCounter's m_counter++   *)
(* and m_counter-- on a plain unsigned int are a read of the count followed *)
(* by a write of the new value; the destructor then reads the count again   *)
(* for its test against zero.  Each thread works on handle objects of its   *)
(* own: no thread touches a handle another thread is constructing or        *)
(* destroying, so the only shared memory is the counter and the resource.   *)

\* is handle x the object some thread is constructing or destroying?
Busy(x) == \E t \in Threads : thr[t].pc # "idle" /\ thr[t].h = x

\* is a thread other than t inside an operation on the counter at address c?
InOperationOn(t, c) ==
    \E u \in Threads \ {t} : thr[u].pc # "idle" /\ m_counter[thr[u].h] = c

\* a destructor that releases without looking at the count
ReleasesAlways(v) == TRUE

\* m_counter->get() == 0, read by the destructor after its decrement
SeesZero(v) == v = 0

\* copy constructor: the fields are copied and m_counter++ reads the count
ThreadBeginCopy(t, h, o) ==
    /\ thr[t].pc = "idle"
    /\ FreeSlot(h)
    /\ live[o] /\ ~Busy(o)
    /\ Inc(value[m_counter[o]]) \in CountRange
    /\ live' = [live EXCEPT ![h] = TRUE]
    /\ resource_' = [resource_ EXCEPT ![h] = resource_[o]]
    /\ m_counter' = [m_counter EXCEPT ![h] = m_counter[o]]
    /\ thr' = [thr EXCEPT ![t] =
                  [pc |-> "inc", h |-> h, tmp |-> value[m_counter[o]]]]
    /\ overlapped' = (overlapped \/ InOperationOn(t, m_counter[o]))
    /\ last' = Record("ThreadBeginCopy", FALSE)
    /\ UNCHANGED <<allocated, value, freed, nextRes>>

\* copy constructor: m_counter++ writes the count it read, plus one
ThreadWriteInc(t) ==
    /\ thr[t].pc = "inc"
    /\ value' = [value EXCEPT ![m_counter[thr[t].h]] =
                    IncOnCopy(resource_[thr[t].h], thr[t].tmp)]
    /\ thr' = [thr EXCEPT ![t] = Idle]
    /\ last' = Record("ThreadWriteInc", FALSE)
    /\ UNCHANGED <<live, resource_, m_counter, allocated, freed, nextRes,
                   overlapped>>

\* destructor: m_counter-- reads the count
ThreadBeginDestruct(t, h) ==
    /\ thr[t].pc = "idle"
    /\ live[h] /\ ~Busy(h)
    /\ Dec(value[m_counter[h]]) \in CountRange
    /\ thr' = [thr EXCEPT ![t] =
                  [pc |-> "dec", h |-> h, tmp |-> value[m_counter[h]]]]
    /\ overlapped' = (overlapped \/ InOperationOn(t, m_counter[h]))
    /\ last' = Record("ThreadBeginDestruct", FALSE)
    /\ UNCHANGED <<live, resource_, m_counter, allocated, value, freed,
                   nextRes>>

\* destructor: m_counter-- writes the count it read, minus one
ThreadWriteDec(t) ==
    /\ thr[t].pc = "dec"
    /\ value' = [value EXCEPT ![m_counter[thr[t].h]] = Dec(thr[t].tmp)]
    /\ thr' = [thr EXCEPT ![t].pc = "check"]
    /\ last' = Record("ThreadWriteDec", FALSE)
    /\ UNCHANGED <<live, resource_, m_counter, allocated, freed, nextRes,
                   overlapped>>

\* what the cell of the counter can hold after the destructor thread t is
\* in has deleted it: a choice only where another handle can read the cell
ThreadGarbage(t) ==
    IF /\ thr[t].pc = "check"
       /\ SeesZero(value[m_counter[thr[t].h]])
       /\ PointedToByOther(thr[t].h, m_counter[thr[t].h])
    THEN Garbage ELSE {0}

\* destructor: if (m_counter->get() == 0) { delete m_counter; delete
\* resource_; }, and the handle object is gone
ThreadCheckRelease(t, g) ==
    /\ thr[t].pc = "check"
    /\ LET h == thr[t].h
           c == m_counter[h]
           zero == SeesZero(value[c])
           gone == zero \/ c \notin allocated
       IN  /\ value' = [value EXCEPT ![c] =
                           IF gone /\ ~PointedToByOther(h, c) THEN 0
                           ELSE IF zero THEN g
                           ELSE @]
           /\ allocated' = IF zero THEN allocated \ {c} ELSE allocated
           /\ freed' = IF zero THEN DeleteResource(resource_[h]) ELSE freed
           /\ live' = [live EXCEPT ![h] = FALSE]
           /\ resource_' = [resource_ EXCEPT ![h] = NULL]
           /\ m_counter' = [m_counter EXCEPT ![h] = NULL]
    /\ thr' = [thr EXCEPT ![t] = Idle]
    /\ last' = Record("ThreadCheckRelease", FALSE)
    /\ UNCHANGED <<nextRes, overlapped>>

\* handles built on resources by one thread, then copied and destroyed by
\* the threads in any interleaving of their reads and writes
NextThreads ==
    \/ \E h \in Handles, a \in Addrs :
          nextRes <= MaxRes /\ Construct(h, nextRes, a)
    \/ \E t \in Threads, h, o \in Handles : ThreadBeginCopy(t, h, o)
    \/ \E t \in Threads : ThreadWriteInc(t)
    \/ \E t \in Threads, h \in Handles : ThreadBeginDestruct(t, h)
    \/ \E t \in Threads : ThreadWriteDec(t)
    \/ \E t \in Threads : \E g \in ThreadGarbage(t) : ThreadCheckRelease(t, g)

SpecThreads == Init /\ [][NextThreads]_vars

\* C18: with two threads copying and destroying handles that share a
\* counter, a count that differs from the number of handles, a resource
\* freed under a surviving handle and a resource left unfreed with no handle
\* come about only after two operations on one counter ran at the same
\* time; the states C18_Witness describes show that they do come about.
C18_RaceCorruptsCount ==
    (\/ /\ \A t \in Threads : thr[t].pc = "idle"
        /\ \E h \in LiveHandles :
              GetReferenceCount(h) # Cardinality(Holders(resource_[h]))
     \/ \E h \in LiveHandles : ~Busy(h) /\ freed[resource_[h]] >= 1
     \/ \E r \in Resources : r < nextRes /\ Holders(r) = {} /\ freed[r] = 0)
    => overlapped

\* both endings at once, with no thread inside an operation: one resource
\* was freed and a surviving handle still holds it, another resource has no
\* handle left and was never freed
C18_Witness ==
    /\ \A t \in Threads : thr[t].pc = "idle"
    /\ \E h \in LiveHandles : freed[resource_[h]] >= 1
    /\ \E r \in Resources : r < nextRes /\ Holders(r) = {} /\ freed[r] = 0
=============================================================================
